---- MODULE Spec2Model ----
(***************************************************************************)
(* Model of crosswalk_free_flow.py: the Grid, its Cells, the four agent    *)
(* classes (TypeA "Mover", TypeB "PathFollower", TypeC "Tourist", TypeD    *)
(* obstacle), Grid.clean_up and Grid.play_turn driven by the __main__ turn *)
(* loop.  Agents are the indices of the scenario's records; a location is  *)
(* the tuple <<x, y>> of Cell.loc.                                         *)
(***************************************************************************)
EXTENDS Integers, Sequences, FiniteSets, TLC

VARIABLES
    rows,            \* the rows of the scenario file: Type, x1, y1, x2, y2
    width, height,   \* Grid.width, Grid.height
    adjacent,        \* Cell.adjacent, per location: the neighbour list
    occupant,        \* Cell.occupant, per location: an agent or None
    symbol,          \* agent.symbol: "A", "B", "C" or "D"
    start,           \* the start cell each agent was created on
    cell,            \* agent.cell
    end,             \* agent.end
    moves,           \* agent.moves: the step log, a sequence of <<origin, target>>
    moved,           \* agent.moved: the acted flag
    move_count,      \* TypeC.move_count
    playerAs, playerBs, playerCs, playerDs,     \* the active pools (lists)
    finishedAs, finishedBs, finishedCs,         \* the finished pools (lists)
    turn,            \* Grid.turn, equal to the loop index i of __main__
    Nturn,           \* the number of turns read by __main__
    pc,              \* the position inside play_turn
    idx,             \* the position of the running for-loop in its pool
    steps            \* history: the operations performed so far in this turn

vars == <<rows, width, height, adjacent, occupant, symbol, start, cell, end, moves, moved,
          move_count, playerAs, playerBs, playerCs, playerDs,
          finishedAs, finishedBs, finishedCs, turn, Nturn, pc, idx, steps>>

None == 0

\* This defines how many moves the Type C agents will move before they are done.
MAX_C_MOVES == 40

(***************************************************************************)
(* Bounds of the model.                                                    *)
(***************************************************************************)
\* the short scenarios are run for 1..MaxTurns turns
MaxTurns == 4
\* the number of turns of the long Tourist scenarios
LongTurns == 64

(***************************************************************************)
(* Sequence helpers.                                                       *)
(***************************************************************************)
Range(s) == {s[i] : i \in 1..Len(s)}

\* list.remove(a): drops the first element equal to a
RECURSIVE Remove(_, _)
Remove(s, a) ==
    IF s = <<>> THEN <<>>
    ELSE IF Head(s) = a THEN Tail(s)
    ELSE <<Head(s)>> \o Remove(Tail(s), a)

\* the orders random.shuffle can leave a list in
Shuffles(s) ==
    {t \in [1..Len(s) -> Range(s)] : \A i, j \in 1..Len(s) : i # j => t[i] # t[j]}

(***************************************************************************)
(* Distances and directions.                                               *)
(***************************************************************************)
\* the square of norm(a, b); math.sqrt is strictly increasing and exact
\* enough on these integers that comparing squares compares the norms
Sq(a, b) == (b[1] - a[1]) * (b[1] - a[1]) + (b[2] - a[2]) * (b[2] - a[2])

Sign(v) == IF v > 0 THEN 1 ELSE IF v < 0 THEN -1 ELSE 0

\* shortest_path(a, b): the location next to a in the direction of b
\* a direction that never leaves the row while the column still differs
shortest_path_Straight(a, b) ==
    IF a = b THEN a
    ELSE IF b[1] # a[1] THEN <<a[1] + Sign(b[1] - a[1]), a[2]>>
    ELSE <<a[1], a[2] + Sign(b[2] - a[2])>>

shortest_path(a, b) ==
    IF a = b THEN a
    ELSE <<a[1] + Sign(b[1] - a[1]), a[2] + Sign(b[2] - a[2])>>

\* an insertion that puts k before the elements as far as k: an unstable sort
RECURSIVE InsertByNormal_Unstable(_, _, _)
InsertByNormal_Unstable(sorted, k, des) ==
    IF sorted = <<>> THEN <<k>>
    ELSE IF Sq(k, des) <= Sq(Head(sorted), des) THEN <<k>> \o sorted
    ELSE <<Head(sorted)>> \o InsertByNormal_Unstable(Tail(sorted), k, des)

\* sorted(choice_pair, key=distance): a stable insertion of k into a sorted list
RECURSIVE InsertByNormal(_, _, _)
InsertByNormal(sorted, k, des) ==
    IF sorted = <<>> THEN <<k>>
    ELSE IF Sq(k, des) < Sq(Head(sorted), des) THEN <<k>> \o sorted
    ELSE <<Head(sorted)>> \o InsertByNormal(Tail(sorted), k, des)

RECURSIVE SortByNormal(_, _)
SortByNormal(choices, des) ==
    IF choices = <<>> THEN <<>>
    ELSE InsertByNormal(SortByNormal(SubSeq(choices, 1, Len(choices) - 1), des),
                        choices[Len(choices)], des)

(***************************************************************************)
(* Grid.initialize: the cells and their neighbour lists.                   *)
(***************************************************************************)
Cells(w, h) == {<<x, y>> : x \in 0..(w - 1), y \in 0..(h - 1)}

\* (delta_i, delta_j) in the order of the two nested range(-1, 2) loops
Deltas == << <<-1, -1>>, <<-1, 0>>, <<-1, 1>>,
             << 0, -1>>, << 0, 0>>, << 0, 1>>,
             << 1, -1>>, << 1, 0>>, << 1, 1>> >>

\* a linking loop without "if x < 0 or y < 0: raise IndexError": the index -1
\* is then the last row or column
initialize_Wraps(w, h) ==
    [c \in Cells(w, h) |->
        LET wrap(i, n) == IF i < 0 THEN i + n ELSE i
            all == [k \in 1..9 |-> <<c[1] + Deltas[k][2], c[2] + Deltas[k][1]>>]
            found == SelectSeq(all, LAMBDA n : n[1] < w /\ n[2] < h)
        IN  [k \in 1..Len(found) |-> <<wrap(found[k][1], w), wrap(found[k][2], h)>>]]

\* the cell at grid[r][s] is Cell(s, r); its neighbour at grid[r + di][s + dj]
initialize(w, h) ==
    [c \in Cells(w, h) |->
        LET all == [k \in 1..9 |-> <<c[1] + Deltas[k][2], c[2] + Deltas[k][1]>>]
        IN  SelectSeq(all, LAMBDA n : n \in Cells(w, h))]

\* Cell.symbol: set to "X" at creation and never assigned again
CellSymbol(j) == "X"

(***************************************************************************)
(* Grid.populate: one agent per record, in the order of the file.  A       *)
(* record is [sym, s, e]: the class tag, the start and the destination.    *)
(***************************************************************************)
\* the class of the agent a record creates: "A", "B", "D", anything else a TypeC
ClassOf(rec) == IF rec.sym \in {"A", "B", "D"} THEN rec.sym ELSE "C"

\* the agents of one class, in the order populate appended them to their pool
PoolOf(recs, cls) == SelectSeq([i \in 1..Len(recs) |-> i], LAMBDA i : ClassOf(recs[i]) = cls)

\* a Python list index into a list of n elements: -n .. n-1 are accepted and a
\* negative one counts from the end, any other raises IndexError
Indexable(i, n) == -n <= i /\ i < n
Index(i, n) == IF i < 0 THEN i + n ELSE i

\* self.grid[y][x] for the coordinates (x, y) written in a row: whether the
\* lookup succeeds, and the location of the cell it finds
InGrid(w, h, xy) == Indexable(xy[2], h) /\ Indexable(xy[1], w)
GridCell(w, h, xy) == <<Index(xy[1], w), Index(xy[2], h)>>

\* the rows populate gets through: all of them, or those before the first row
\* one of whose two lookups raises IndexError
RowsRead(w, h, recs) ==
    LET bad == {i \in 1..Len(recs) :
                    ~(InGrid(w, h, recs[i].s) /\ InGrid(w, h, recs[i].e))}
    IN  IF bad = {} THEN recs
        ELSE SubSeq(recs, 1, (CHOOSE i \in bad : \A k \in bad : i <= k) - 1)

\* each constructor sets start.occupant = self: the last record on a cell wins
populate(w, h, recs) ==
    [c \in Cells(w, h) |->
        LET read == RowsRead(w, h, recs)
            on == {i \in 1..Len(read) : GridCell(w, h, read[i].s) = c}
        IN  IF on = {} THEN None ELSE CHOOSE i \in on : \A k \in on : k <= i]

(***************************************************************************)
(* The scenarios the model is run on: a grid and its records.  The start   *)
(* cells of a scenario are pairwise distinct.                              *)
(***************************************************************************)
Rec(sym, s, e) == [sym |-> sym, s |-> s, e |-> e]

\* a Mover facing a PathFollower in a corridor of three cells
Corridor ==
    [w |-> 3, h |-> 1,
     recs |-> << Rec("A", <<0, 0>>, <<2, 0>>), Rec("B", <<1, 0>>, <<0, 0>>) >>]

\* two Movers one step from their destinations
TwoMovers ==
    [w |-> 2, h |-> 2,
     recs |-> << Rec("A", <<0, 0>>, <<1, 0>>), Rec("A", <<0, 1>>, <<1, 1>>) >>]

\* a Mover and a PathFollower whose way is barred by an obstacle in the centre
Barred ==
    [w |-> 3, h |-> 3,
     recs |-> << Rec("D", <<1, 1>>, <<1, 1>>), Rec("A", <<1, 0>>, <<1, 2>>),
                 Rec("B", <<0, 0>>, <<2, 2>>) >>]

\* two PathFollowers head-on, and a Tourist in the way of one of them
HeadOn ==
    [w |-> 3, h |-> 2,
     recs |-> << Rec("B", <<0, 0>>, <<2, 0>>), Rec("B", <<1, 0>>, <<0, 0>>),
                 Rec("C", <<1, 1>>, <<0, 1>>), Rec("B", <<2, 1>>, <<0, 1>>) >>]

\* one agent of every class
Mixed ==
    [w |-> 3, h |-> 2,
     recs |-> << Rec("A", <<0, 0>>, <<2, 1>>), Rec("B", <<2, 0>>, <<0, 0>>),
                 Rec("C", <<0, 1>>, <<2, 0>>), Rec("D", <<1, 0>>, <<1, 0>>),
                 Rec("E", <<2, 1>>, <<0, 1>>) >>]

\* agents created on their own destinations
AtHome ==
    [w |-> 2, h |-> 2,
     recs |-> << Rec("A", <<0, 0>>, <<0, 0>>), Rec("B", <<1, 0>>, <<1, 0>>),
                 Rec("B", <<1, 1>>, <<1, 1>>), Rec("C", <<0, 1>>, <<0, 1>>) >>]

\* two Movers and two PathFollowers crossing a square with a Tourist in its centre
Rush ==
    [w |-> 3, h |-> 3,
     recs |-> << Rec("A", <<0, 0>>, <<2, 2>>), Rec("A", <<0, 2>>, <<2, 0>>),
                 Rec("B", <<2, 0>>, <<0, 2>>), Rec("B", <<2, 2>>, <<0, 0>>),
                 Rec("C", <<1, 1>>, <<1, 0>>) >>]

\* two PathFollowers passing each other in a corridor with one free cell between them
Passing ==
    [w |-> 4, h |-> 1,
     recs |-> << Rec("B", <<2, 0>>, <<0, 0>>), Rec("B", <<0, 0>>, <<3, 0>>) >>]

\* rows with negative coordinates, which Python takes as counted from the end
Wrapped ==
    [w |-> 3, h |-> 2,
     recs |-> << Rec("A", <<-1, 0>>, <<0, -1>>), Rec("B", <<0, 0>>, <<2, 1>>) >>]

\* a row whose start lies beyond the last column
OffGrid ==
    [w |-> 3, h |-> 1,
     recs |-> << Rec("B", <<0, 0>>, <<2, 0>>), Rec("A", <<3, 0>>, <<0, 0>>),
                 Rec("C", <<1, 0>>, <<2, 0>>) >>]

\* Tourists that can never reach their destinations: they run into the cap
Crowd ==
    [w |-> 2, h |-> 2,
     recs |-> << Rec("C", <<0, 0>>, <<1, 1>>), Rec("C", <<1, 0>>, <<1, 1>>),
                 Rec("D", <<1, 1>>, <<1, 1>>), Rec("D", <<0, 1>>, <<0, 1>>) >>]

\* one agent of every class around an obstacle, with every choice of destinations
Crossing ==
    {[w |-> 3, h |-> 2,
      recs |-> << Rec("A", <<0, 0>>, ea), Rec("B", <<2, 0>>, eb),
                  Rec("C", <<0, 1>>, ec), Rec("D", <<1, 0>>, <<1, 0>>) >>] :
        ea \in Cells(3, 2), eb \in Cells(3, 2), ec \in Cells(3, 2)}

ShortScenarios ==
    {Corridor, TwoMovers, Barred, HeadOn, Mixed, AtHome, Rush, Passing, Wrapped, OffGrid}
        \cup Crossing
LongScenarios == {Crowd, Corridor}

(***************************************************************************)
(* The state after Grid(), initialize(), populate() and the prompt for the *)
(* number of turns.                                                        *)
(***************************************************************************)
Agents == DOMAIN symbol
Tourists == {a \in Agents : symbol[a] = "C"}

Step(op, who, from, resp, ok) ==
    [op |-> op, who |-> who, from |-> from, resp |-> resp, ok |-> ok]

\* the state after Grid(), initialize() and populate(): the agents are those of
\* the rows read; an IndexError out of populate ends the program
InitFrom(sc, n) ==
    LET read == RowsRead(sc.w, sc.h, sc.recs)
        s(i) == GridCell(sc.w, sc.h, read[i].s)
        e(i) == GridCell(sc.w, sc.h, read[i].e)
    IN
    /\ rows = sc.recs
    /\ width = sc.w
    /\ height = sc.h
    /\ adjacent = initialize(sc.w, sc.h)
    /\ occupant = populate(sc.w, sc.h, sc.recs)
    /\ symbol = [i \in 1..Len(read) |-> ClassOf(read[i])]
    /\ start = [i \in 1..Len(read) |-> s(i)]
    /\ cell = [i \in 1..Len(read) |-> s(i)]
    /\ end = [i \in 1..Len(read) |-> IF ClassOf(read[i]) = "D" THEN s(i) ELSE e(i)]
    /\ moves = [i \in 1..Len(read) |-> <<>>]
    /\ moved = [i \in 1..Len(read) |-> FALSE]
    /\ move_count = [i \in {k \in 1..Len(read) : ClassOf(read[k]) = "C"} |-> 0]
    /\ playerAs = PoolOf(read, "A")
    /\ playerBs = PoolOf(read, "B")
    /\ playerCs = PoolOf(read, "C")
    /\ playerDs = PoolOf(read, "D")
    /\ finishedAs = <<>>
    /\ finishedBs = <<>>
    /\ finishedCs = <<>>
    /\ turn = 0
    /\ Nturn = n
    /\ pc = IF Len(read) = Len(sc.recs) THEN "shuffleAs" ELSE "IndexError"
    /\ idx = 1
    /\ steps = << Step("populate", None, <<>>, None, FALSE) >>

Init ==
    \/ \E sc \in ShortScenarios, n \in 1..MaxTurns : InitFrom(sc, n)
    \/ \E sc \in LongScenarios : InitFrom(sc, LongTurns)

(***************************************************************************)
(* TypeA, the Mover.                                                       *)
(***************************************************************************)
\* the neighbours a Mover may step on: not occupied, not its own cell
\* choices without the diagonal neighbours
TypeA_choices_NoDiagonal(a) ==
    SelectSeq(adjacent[cell[a]],
              LAMBDA j : /\ occupant[j] = None /\ j # cell[a] /\ CellSymbol(j) # "D"
                         /\ (j[1] = cell[a][1] \/ j[2] = cell[a][2]))

TypeA_choices(a) ==
    SelectSeq(adjacent[cell[a]],
              LAMBDA j : occupant[j] = None /\ j # cell[a] /\ CellSymbol(j) # "D")

\* choice_pair[0][0] after the sort, the Mover's own cell when there is no choice
TypeA_target(a) ==
    LET choice_pair == SortByNormal(TypeA_choices(a), end[a])
    IN  IF Len(choice_pair) > 0 THEN choice_pair[1] ELSE cell[a]

TypeA_move(a) ==
    IF ~moved[a]
    THEN LET target == TypeA_target(a)
             prev == cell[a]
         IN  /\ cell' = [cell EXCEPT ![a] = target]
             /\ occupant' = IF target # prev
                            THEN [occupant EXCEPT ![prev] = None, ![target] = a]
                            ELSE occupant
             /\ moves' = [moves EXCEPT ![a] = Append(@, <<prev, target>>)]
             /\ moved' = [moved EXCEPT ![a] = TRUE]
    ELSE UNCHANGED <<cell, occupant, moves, moved>>

\* a check_swap that forgets the flag
TypeA_check_swap_IgnoresFlag(p, c) == Sq(c, end[p]) < Sq(cell[p], end[p])

\* TypeA.check_swap: the answer (accepting also sets self.moved)
TypeA_check_swap(p, c) == Sq(c, end[p]) < Sq(cell[p], end[p]) /\ ~moved[p]

(***************************************************************************)
(* TypeB, the PathFollower.                                                *)
(***************************************************************************)
TypeB_choices(b) ==
    SelectSeq(adjacent[cell[b]], LAMBDA j : j # cell[b] /\ CellSymbol(j) # "D")

\* shortest_path_between, called by move with self.moved false
shortest_path_between(b) ==
    LET choice_pair == SortByNormal(TypeB_choices(b), end[b])
    IN  IF Len(choice_pair) > 0 THEN choice_pair[1] ELSE cell[b]

\* a check_swap that looks at the direction only
TypeB_check_swap_IgnoresFlag(p, c) == shortest_path(cell[p], end[p]) = c

TypeB_check_swap(p, c) == shortest_path(cell[p], end[p]) = c /\ ~moved[p]

\* TypeC.check_swap: the coin
TypeC_check_swap(p, c, coin) == coin

\* a check_swap that takes the direction from the offered cell to its own
TypeD_check_swap_Reversed(p, c) == shortest_path(c, end[p]) = cell[p] /\ ~moved[p]

TypeD_check_swap(p, c) == shortest_path(cell[p], end[p]) = c /\ ~moved[p]

\* best_choice.occupant.check_swap(cell), dispatched on the occupant's class
check_swap(p, c, coin) ==
    CASE symbol[p] = "A" -> TypeA_check_swap(p, c)
      [] symbol[p] = "B" -> TypeB_check_swap(p, c)
      [] symbol[p] = "C" -> TypeC_check_swap(p, c, coin)
      [] symbol[p] = "D" -> TypeD_check_swap(p, c)

\* the flag of the asked agent after check_swap: A, B and D set it when they accept
\* a check_swap that marks the responder as soon as it has been asked
MovedAfterCheck_Asked(p, c, coin) == symbol[p] # "C" \/ moved[p]

MovedAfterCheck(p, c, coin) ==
    IF symbol[p] # "C" /\ check_swap(p, c, coin) THEN TRUE ELSE moved[p]

\* the occupants after an accepted swap: best_choice.occupant = self, then
\* partner.cell.occupant = partner with partner.cell the initiator's previous cell
SwapOccupants_NoPartner(b, best_choice, partner, prev) ==
    [occupant EXCEPT ![best_choice] = b]

SwapOccupants(b, best_choice, partner, prev) ==
    [occupant EXCEPT ![best_choice] = b, ![prev] = partner]

\* the agent a PathFollower asks for a swap when it acts, None when it asks nobody
TypeB_partner(b) == IF moved[b] THEN None ELSE occupant[shortest_path_between(b)]

TypeB_move(b, coin) ==
    IF ~moved[b]
    THEN LET best_choice == shortest_path_between(b)
             prev == cell[b]
             partner == occupant[best_choice]
         IN  IF partner # None
             THEN LET accepted == check_swap(partner, prev, coin)
                      flags == [moved EXCEPT ![partner] = MovedAfterCheck(partner, prev, coin)]
                  IN  IF accepted /\ symbol[partner] # "D"
                      THEN /\ cell' = [cell EXCEPT ![b] = best_choice, ![partner] = prev]
                           /\ occupant' = SwapOccupants(b, best_choice, partner, prev)
                           /\ moves' = [moves EXCEPT ![b] = Append(@, <<prev, best_choice>>)]
                           /\ moved' = [flags EXCEPT ![b] = TRUE]
                      ELSE /\ UNCHANGED <<cell, occupant>>
                           /\ moves' = [moves EXCEPT ![b] = Append(@, <<prev, prev>>)]
                           /\ moved' = [flags EXCEPT ![b] = TRUE]
             ELSE /\ cell' = [cell EXCEPT ![b] = best_choice]
                  /\ occupant' = [occupant EXCEPT ![prev] = None, ![best_choice] = b]
                  /\ moves' = [moves EXCEPT ![b] = Append(@, <<prev, best_choice>>)]
                  /\ moved' = [moved EXCEPT ![b] = TRUE]
    ELSE UNCHANGED <<cell, occupant, moves, moved>>

(***************************************************************************)
(* TypeC, the Tourist.                                                     *)
(***************************************************************************)
\* move1, random walk: the unoccupied neighbours
TypeC_choices1(c) == SelectSeq(adjacent[cell[c]], LAMBDA i : occupant[i] = None)

TypeC_move1(c, choice) ==
    /\ IF Len(TypeC_choices1(c)) > 0
       THEN /\ choice \in Range(TypeC_choices1(c))
            /\ cell' = [cell EXCEPT ![c] = choice]
            /\ occupant' = [occupant EXCEPT ![cell[c]] = None, ![choice] = c]
            /\ moves' = [moves EXCEPT ![c] = Append(@, <<cell[c], choice>>)]
       ELSE /\ choice = cell[c]
            /\ UNCHANGED <<cell, occupant, moves>>
    /\ move_count' = [move_count EXCEPT ![c] = @ + 1]
    /\ UNCHANGED moved

\* move2, greedy
TypeC_choices2(c) ==
    SelectSeq(adjacent[cell[c]], LAMBDA j : occupant[j] = None /\ j # cell[c])

\* a choice of the farthest unoccupied neighbour
TypeC_target2_Farthest(c) ==
    LET choice_pair == SortByNormal(TypeC_choices2(c), end[c])
    IN  IF Len(choice_pair) > 0 THEN choice_pair[Len(choice_pair)] ELSE cell[c]

TypeC_target2(c) ==
    LET choice_pair == SortByNormal(TypeC_choices2(c), end[c])
    IN  IF Len(choice_pair) > 0 THEN choice_pair[1] ELSE cell[c]

\* a move2 that counts like move1 and move3
TypeC_move2_Counts(c) ==
    /\ IF ~moved[c]
       THEN LET target == TypeC_target2(c)
                prev == cell[c]
            IN  /\ cell' = [cell EXCEPT ![c] = target]
                /\ occupant' = IF target # prev
                               THEN [occupant EXCEPT ![prev] = None, ![target] = c]
                               ELSE occupant
                /\ moves' = [moves EXCEPT ![c] = Append(@, <<prev, target>>)]
                /\ moved' = [moved EXCEPT ![c] = TRUE]
       ELSE UNCHANGED <<cell, occupant, moves, moved>>
    /\ move_count' = [move_count EXCEPT ![c] = @ + 1]

TypeC_move2(c) ==
    /\ IF ~moved[c]
       THEN LET target == TypeC_target2(c)
                prev == cell[c]
            IN  /\ cell' = [cell EXCEPT ![c] = target]
                /\ occupant' = IF target # prev
                               THEN [occupant EXCEPT ![prev] = None, ![target] = c]
                               ELSE occupant
                /\ moves' = [moves EXCEPT ![c] = Append(@, <<prev, target>>)]
                /\ moved' = [moved EXCEPT ![c] = TRUE]
       ELSE UNCHANGED <<cell, occupant, moves, moved>>
    /\ UNCHANGED move_count

\* move3, idle
TypeC_move3(c) ==
    /\ moves' = [moves EXCEPT ![c] = Append(@, <<cell[c], cell[c]>>)]
    /\ move_count' = [move_count EXCEPT ![c] = @ + 1]
    /\ UNCHANGED <<cell, occupant, moved>>

\* the branch play_turn takes for every Tourist of turn t out of n
TouristMode(t, n) ==
    IF 3 * t <= n THEN "move2"
    ELSE IF 3 * t <= 2 * n THEN "move3"
    ELSE IF t <= n THEN "move1"
    ELSE "none"

(***************************************************************************)
(* Grid.clean_up.  Each loop is a Python for-loop over the list it removes *)
(* from: the iterator is a position i in the list as it stands.            *)
(***************************************************************************)
\* the test of the TypeA and TypeB loops
Arrived(a) == end[a] = cell[a]

\* the test of the TypeC loop
Retired(c) == end[c] = cell[c] \/ move_count[c] > MAX_C_MOVES

\* one loop of clean_up from position i on: the pool, its finished list and the
\* occupants it leaves; Test is the condition of the loop of that class
Test(kind, a) == IF kind = "C" THEN Retired(a) ELSE Arrived(a)

\* a loop that forgets self.playerAs.remove(a)
RECURSIVE ScanPool_KeepsActive(_, _, _, _, _)
ScanPool_KeepsActive(active, finished, occ, i, kind) ==
    IF i > Len(active) THEN [active |-> active, finished |-> finished, occ |-> occ]
    ELSE LET a == active[i]
         IN  IF Test(kind, a)
             THEN ScanPool_KeepsActive(active, Append(finished, a),
                                       [occ EXCEPT ![cell[a]] = None], i + 1, kind)
             ELSE ScanPool_KeepsActive(active, finished, occ, i + 1, kind)

\* a loop that forgets a.cell.occupant = None
RECURSIVE ScanPool_KeepsOccupant(_, _, _, _, _)
ScanPool_KeepsOccupant(active, finished, occ, i, kind) ==
    IF i > Len(active) THEN [active |-> active, finished |-> finished, occ |-> occ]
    ELSE LET a == active[i]
         IN  IF Test(kind, a)
             THEN ScanPool_KeepsOccupant(Remove(active, a), Append(finished, a),
                                         occ, i + 1, kind)
             ELSE ScanPool_KeepsOccupant(active, finished, occ, i + 1, kind)

RECURSIVE ScanPool(_, _, _, _, _)
ScanPool(active, finished, occ, i, kind) ==
    IF i > Len(active) THEN [active |-> active, finished |-> finished, occ |-> occ]
    ELSE LET a == active[i]
         IN  IF Test(kind, a)
             THEN ScanPool(Remove(active, a), Append(finished, a),
                           [occ EXCEPT ![cell[a]] = None], i + 1, kind)
             ELSE ScanPool(active, finished, occ, i + 1, kind)

\* clean_up applied to the three pools in turn
clean_up(As, fAs, Bs, fBs, Cs, fCs, occ) ==
    LET ra == ScanPool(As, fAs, occ, 1, "A")
        rb == ScanPool(Bs, fBs, ra.occ, 1, "B")
        rc == ScanPool(Cs, fCs, rb.occ, 1, "C")
    IN  [As |-> ra.active, fAs |-> ra.finished, Bs |-> rb.active, fBs |-> rb.finished,
         Cs |-> rc.active, fCs |-> rc.finished, occ |-> rc.occ]

(***************************************************************************)
(* Grid.play_turn, one step at a time, inside the turn loop of __main__.   *)
(***************************************************************************)
grid == <<rows, width, height, adjacent, symbol, start, end, Nturn>>
pools == <<playerAs, playerBs, playerCs, playerDs, finishedAs, finishedBs, finishedCs>>
agents == <<cell, occupant, moves, moved, move_count>>

\* random.shuffle(self.playerAs), the first statement of a turn
ShuffleAs ==
    /\ pc = "shuffleAs"
    /\ playerAs' \in Shuffles(playerAs)
    /\ pc' = "As"
    /\ idx' = 1
    /\ steps' = << Step("shuffleAs", None, <<>>, None, FALSE) >>
    /\ UNCHANGED <<grid, agents, turn, playerBs, playerCs, playerDs,
                   finishedAs, finishedBs, finishedCs>>

\* for a in self.playerAs: a.move()
MoverMove ==
    /\ pc = "As"
    /\ idx <= Len(playerAs)
    /\ TypeA_move(playerAs[idx])
    /\ idx' = idx + 1
    /\ steps' = Append(steps, Step("A.move", playerAs[idx], cell[playerAs[idx]], None, FALSE))
    /\ UNCHANGED <<grid, pools, move_count, turn, pc>>

\* random.shuffle(self.playerBs), before the first clean_up
ShuffleBs ==
    /\ pc = "As"
    /\ idx > Len(playerAs)
    /\ playerBs' \in Shuffles(playerBs)
    /\ pc' = "clean_up1"
    /\ steps' = Append(steps, Step("shuffleBs", None, <<>>, None, FALSE))
    /\ UNCHANGED <<grid, agents, turn, idx, playerAs, playerCs, playerDs,
                   finishedAs, finishedBs, finishedCs>>

\* where play_turn stands before each of its three clean_up calls, and after it
BeforeCleanUp ==
    \/ pc = "clean_up1"
    \/ pc = "Bs" /\ idx > Len(playerBs)
    \/ pc = "Cs" /\ idx > Len(playerCs)

\* a play_turn that leaves out the loop over playerBs and its clean_up
AfterCleanUp_SkipsBs ==
    CASE pc = "clean_up1" -> "shuffleCs" [] pc = "Bs" -> "shuffleCs" [] pc = "Cs" -> "reset"

AfterCleanUp == CASE pc = "clean_up1" -> "Bs" [] pc = "Bs" -> "shuffleCs" [] pc = "Cs" -> "reset"

CleanUp ==
    /\ BeforeCleanUp
    /\ LET r == clean_up(playerAs, finishedAs, playerBs, finishedBs,
                         playerCs, finishedCs, occupant)
       IN  /\ playerAs' = r.As
           /\ finishedAs' = r.fAs
           /\ playerBs' = r.Bs
           /\ finishedBs' = r.fBs
           /\ playerCs' = r.Cs
           /\ finishedCs' = r.fCs
           /\ occupant' = r.occ
    /\ pc' = AfterCleanUp
    /\ idx' = 1
    /\ steps' = Append(steps, Step("clean_up", None, <<>>, None, FALSE))
    /\ UNCHANGED <<grid, cell, moves, moved, move_count, turn, playerDs>>

\* for b in self.playerBs: b.move()
PathFollowerMove ==
    /\ pc = "Bs"
    /\ idx <= Len(playerBs)
    /\ \E coin \in BOOLEAN :
        LET b == playerBs[idx]
            partner == TypeB_partner(b)
        IN  /\ TypeB_move(b, coin)
            /\ steps' = Append(steps,
                   Step("B.move", b, cell[b], partner,
                        partner # None /\ check_swap(partner, cell[b], coin)))
    /\ idx' = idx + 1
    /\ UNCHANGED <<grid, pools, move_count, turn, pc>>

\* random.shuffle(self.playerCs)
ShuffleCs ==
    /\ pc = "shuffleCs"
    /\ playerCs' \in Shuffles(playerCs)
    /\ pc' = "Cs"
    /\ idx' = 1
    /\ steps' = Append(steps, Step("shuffleCs", None, <<>>, None, FALSE))
    /\ UNCHANGED <<grid, agents, turn, playerAs, playerBs, playerDs,
                   finishedAs, finishedBs, finishedCs>>

\* for c in self.playerCs: the first third of the run c.move2()
TouristGreedy ==
    /\ pc = "Cs"
    /\ idx <= Len(playerCs)
    /\ TouristMode(turn, Nturn) = "move2"
    /\ TypeC_move2(playerCs[idx])
    /\ idx' = idx + 1
    /\ steps' = Append(steps, Step("C.move2", playerCs[idx], cell[playerCs[idx]], None, FALSE))
    /\ UNCHANGED <<grid, pools, turn, pc>>

\* the middle third c.move3()
TouristIdle ==
    /\ pc = "Cs"
    /\ idx <= Len(playerCs)
    /\ TouristMode(turn, Nturn) = "move3"
    /\ TypeC_move3(playerCs[idx])
    /\ idx' = idx + 1
    /\ steps' = Append(steps, Step("C.move3", playerCs[idx], cell[playerCs[idx]], None, FALSE))
    /\ UNCHANGED <<grid, pools, turn, pc>>

\* the last third c.move1()
TouristRandom ==
    /\ pc = "Cs"
    /\ idx <= Len(playerCs)
    /\ TouristMode(turn, Nturn) = "move1"
    /\ \E choice \in Cells(width, height) : TypeC_move1(playerCs[idx], choice)
    /\ idx' = idx + 1
    /\ steps' = Append(steps, Step("C.move1", playerCs[idx], cell[playerCs[idx]], None, FALSE))
    /\ UNCHANGED <<grid, pools, turn, pc>>

\* the reset of every agent left in an active pool
\* a reset that leaves out the loop over playerBs
reset_SkipsBs ==
    [a \in Agents |->
        IF a \in Range(playerAs) \cup Range(playerCs) THEN FALSE ELSE moved[a]]

reset ==
    [a \in Agents |->
        IF a \in Range(playerAs) \cup Range(playerBs) \cup Range(playerCs)
        THEN FALSE ELSE moved[a]]

\* the three reset loops and self.turn += 1; the loop of __main__ then goes on
\* to the next play_turn or ends
EndTurn ==
    /\ pc = "reset"
    /\ moved' = reset
    /\ turn' = turn + 1
    /\ pc' = IF turn + 1 < Nturn THEN "shuffleAs" ELSE "done"
    /\ idx' = 1
    /\ steps' = Append(steps, Step("reset", None, <<>>, None, FALSE))
    /\ UNCHANGED <<grid, pools, cell, occupant, moves, move_count>>

Next ==
    \/ ShuffleAs
    \/ MoverMove
    \/ ShuffleBs
    \/ CleanUp
    \/ PathFollowerMove
    \/ ShuffleCs
    \/ TouristGreedy
    \/ TouristIdle
    \/ TouristRandom
    \/ EndTurn

Spec == Init /\ [][Next]_vars

(***************************************************************************)
(* Vocabulary of the properties.                                           *)
(***************************************************************************)
Last(s) == s[Len(s)]
LastStep == Last(steps)

Active == Range(playerAs) \cup Range(playerBs) \cup Range(playerCs)
Obstacles == Range(playerDs)
OnBoard == Active \cup Obstacles

DistinctStarts == \A a, b \in Agents : a # b => start[a] # start[b]

\* this step is an operation of play_turn (not a stuttering step) named op
Did(op) == steps' # steps /\ Last(steps').op = op

\* the number of clean_up calls among the operations s
RECURSIVE CleanUps(_)
CleanUps(s) ==
    IF s = <<>> THEN 0
    ELSE CleanUps(Tail(s)) + (IF Head(s).op = "clean_up" THEN 1 ELSE 0)

\* the agents whose own action, one of ops, is among the operations s
Actors(s, ops) == {s[i].who : i \in {k \in 1..Len(s) : s[k].op \in ops}}
Times(s, a, ops) == Cardinality({k \in 1..Len(s) : s[k].op \in ops /\ s[k].who = a})

\* how often a occurs in the list s
Count(s, a) == Cardinality({i \in 1..Len(s) : s[i] = a})

(***************************************************************************)
(* C1: with pairwise distinct start cells, in every state every cell holds *)
(* at most one occupant, every agent of an active pool or of the obstacle  *)
(* pool is the occupant of its own cell, and no two such agents share a    *)
(* cell.                                                                   *)
(***************************************************************************)
C1_Occupancy ==
    DistinctStarts =>
        /\ occupant \in [Cells(width, height) -> Agents \cup {None}]
        /\ \A a \in OnBoard : occupant[cell[a]] = a
        /\ \A a, b \in OnBoard : a # b => cell[a] # cell[b]

\* a PathFollower has just swapped cells with the agent it asked
C1_Witness ==
    /\ DistinctStarts
    /\ LastStep.op = "B.move"
    /\ LastStep.ok
    /\ cell[LastStep.resp] = LastStep.from

(***************************************************************************)
(* C2: every Mover, PathFollower and Tourist is listed exactly once in the *)
(* active pool and the finished pool of its class taken together, a        *)
(* finished agent never becomes active again, and the obstacle pool never  *)
(* changes.                                                                *)
(***************************************************************************)
C2_Partition ==
    /\ \A a \in Agents :
        /\ Count(playerAs \o finishedAs, a) = (IF symbol[a] = "A" THEN 1 ELSE 0)
        /\ Count(playerBs \o finishedBs, a) = (IF symbol[a] = "B" THEN 1 ELSE 0)
        /\ Count(playerCs \o finishedCs, a) = (IF symbol[a] = "C" THEN 1 ELSE 0)
    /\ Range(playerAs \o finishedAs \o playerBs \o finishedBs \o playerCs \o finishedCs)
           \subseteq Agents

C2_OneWay ==
    /\ Range(finishedAs) \subseteq Range(finishedAs')
    /\ Range(finishedBs) \subseteq Range(finishedBs')
    /\ Range(finishedCs) \subseteq Range(finishedCs')
    /\ playerDs' = playerDs

C2_Pools == [](C2_Partition) /\ [][C2_OneWay]_vars

\* a clean_up has moved one agent of a pool and left another one active
C2_Witness ==
    /\ LastStep.op = "clean_up"
    /\ \/ finishedAs # <<>> /\ playerAs # <<>>
       \/ finishedBs # <<>> /\ playerBs # <<>>
       \/ finishedCs # <<>> /\ playerCs # <<>>

(***************************************************************************)
(* C3: right after every clean_up no active Mover or PathFollower stands   *)
(* on its destination and no active Tourist stands on its destination or   *)
(* has a move counter above the cap.                                       *)
(***************************************************************************)
C3_NoneLeft ==
    LastStep.op = "clean_up" =>
        /\ \A a \in Range(playerAs) \cup Range(playerBs) : ~Arrived(a)
        /\ \A c \in Range(playerCs) : ~Retired(c)

(***************************************************************************)
(* C4: clean_up is idempotent: in the state a clean_up leaves, a second    *)
(* clean_up changes no pool and no occupant.                               *)
(***************************************************************************)
C4_Idempotent ==
    LastStep.op = "clean_up" =>
        clean_up(playerAs, finishedAs, playerBs, finishedBs, playerCs, finishedCs, occupant)
            = [As |-> playerAs, fAs |-> finishedAs, Bs |-> playerBs, fBs |-> finishedBs,
               Cs |-> playerCs, fCs |-> finishedCs, occ |-> occupant]

(***************************************************************************)
(* C5: a turn is, in this order, the action of every active Mover, a       *)
(* clean_up, the action of every active PathFollower, a clean_up, the      *)
(* action of every active Tourist, a clean_up, the reset of every active   *)
(* agent's flag and the increment of the turn counter by one; the counter  *)
(* changes nowhere else.                                                   *)
(***************************************************************************)
TouristOps == {"C.move1", "C.move2", "C.move3"}

\* the place of the i-th operation of a turn in the order the claim lists
C5_Rank(s, i) ==
    LET k == CleanUps(SubSeq(s, 1, i - 1))
        op == s[i].op
    IN  CASE op \in {"populate", "shuffleAs"} -> 0
          [] op = "A.move" -> 1
          [] op = "shuffleBs" -> 2
          [] op = "clean_up" -> 3 + 3 * k
          [] op = "B.move" -> IF k = 1 THEN 4 ELSE -1
          [] op = "shuffleCs" -> IF k = 2 THEN 7 ELSE -1
          [] op \in TouristOps -> IF k = 2 THEN 8 ELSE -1
          [] op = "reset" -> IF k = 3 THEN 10 ELSE -1

C5_Order ==
    /\ C5_Rank(steps, 1) = 0
    /\ \A i \in 2..Len(steps) :
        /\ C5_Rank(steps, i) > 0
        /\ C5_Rank(steps, i - 1) <= C5_Rank(steps, i)
        /\ C5_Rank(steps, i - 1) = C5_Rank(steps, i) => C5_Rank(steps, i) \in {1, 4, 8}

\* the pool whose phase ends with the clean_up that follows the operations s
C5_PhasePool(s) ==
    CASE CleanUps(s) = 0 -> playerAs [] CleanUps(s) = 1 -> playerBs [] OTHER -> playerCs

C5_PhaseOps(s) ==
    CASE CleanUps(s) = 0 -> {"A.move"} [] CleanUps(s) = 1 -> {"B.move"} [] OTHER -> TouristOps

C5_Step ==
    /\ Did("clean_up") =>
        /\ Actors(steps, C5_PhaseOps(steps)) = Range(C5_PhasePool(steps))
        /\ \A a \in Range(C5_PhasePool(steps)) : Times(steps, a, C5_PhaseOps(steps)) = 1
    /\ Did("reset") =>
        /\ CleanUps(steps) = 3
        /\ turn' = turn + 1
        /\ \A a \in Active : ~moved'[a]
    /\ turn' # turn => Did("reset")

C5_TurnOrder == [](C5_Order) /\ [][C5_Step]_vars

\* a turn has ended in which agents of all three classes acted
C5_Witness ==
    /\ LastStep.op = "reset"
    /\ turn > 0
    /\ Actors(steps, {"A.move"}) # {}
    /\ Actors(steps, {"B.move"}) # {}
    /\ Actors(steps, TouristOps) # {}

(***************************************************************************)
(* C6: when a PathFollower asks for a swap every active Mover has its flag *)
(* set, so a Mover asked for a swap declines, and a Mover's cell changes   *)
(* only by the Mover's own move.                                           *)
(***************************************************************************)
C6_Step ==
    /\ (Did("B.move") /\ Last(steps').resp # None) =>
        /\ \A a \in Range(playerAs) : moved[a]
        /\ symbol[Last(steps').resp] = "A" => ~Last(steps').ok
    /\ \A a \in Agents :
        (symbol[a] = "A" /\ cell'[a] # cell[a]) => (Did("A.move") /\ Last(steps').who = a)

C6_MoverDeclines == [][C6_Step]_vars

\* a PathFollower has asked a Mover for a swap that would bring the Mover closer
C6_Witness ==
    /\ LastStep.op = "B.move"
    /\ LastStep.resp # None
    /\ symbol[LastStep.resp] = "A"
    /\ Sq(LastStep.from, end[LastStep.resp]) < Sq(cell[LastStep.resp], end[LastStep.resp])

(***************************************************************************)
(* C7: when a Mover acts and no unoccupied neighbour is strictly closer to *)
(* its destination than its own cell, the Mover stays where it is and      *)
(* records a self-loop.                                                    *)
(***************************************************************************)
\* the cells at Chebyshev distance 1 of c
Neighbours(c) ==
    {j \in Cells(width, height) :
        /\ j # c
        /\ j[1] - c[1] \in {-1, 0, 1}
        /\ j[2] - c[2] \in {-1, 0, 1}}

Free(c) == {j \in Neighbours(c) : occupant[j] = None}

C7_Step ==
    Did("A.move") =>
        LET a == Last(steps').who
        IN  (\A j \in Free(cell[a]) : ~(Sq(j, end[a]) < Sq(cell[a], end[a]))) =>
                /\ cell'[a] = cell[a]
                /\ Last(moves'[a]) = <<cell[a], cell[a]>>

C7_StaysPut == [][C7_Step]_vars

(***************************************************************************)
(* C8: a Mover that acts with an unoccupied neighbour ends on the          *)
(* unoccupied neighbour nearest to its destination, the first one in the   *)
(* enumeration order (rows y-1, y, y+1, in each row x-1, x, x+1) among     *)
(* equally near ones, records (origin, chosen cell) and is marked acted;   *)
(* with no unoccupied neighbour it stays, records a self-loop and is       *)
(* marked acted.                                                           *)
(***************************************************************************)
\* p comes no later than q in the enumeration order
Before(p, q) == p[2] < q[2] \/ (p[2] = q[2] /\ p[1] <= q[1])

C8_Step ==
    Did("A.move") =>
        LET a == Last(steps').who
        IN  ~moved[a] =>
            /\ moved'[a]
            /\ moves'[a] = Append(moves[a], <<cell[a], cell'[a]>>)
            /\ IF Free(cell[a]) = {}
               THEN cell'[a] = cell[a]
               ELSE /\ cell'[a] \in Free(cell[a])
                    /\ \A j \in Free(cell[a]) :
                        \/ Sq(cell'[a], end[a]) < Sq(j, end[a])
                        \/ Sq(cell'[a], end[a]) = Sq(j, end[a]) /\ Before(cell'[a], j)

C9_Obstacles ==
    /\ Obstacles = {a \in Agents : symbol[a] = "D"}
    /\ \A d \in Obstacles :
        /\ cell[d] = start[d]
        /\ occupant[cell[d]] = d
        /\ \A a \in Agents \ {d} : cell[a] # cell[d]
    /\ (LastStep.resp # None /\ symbol[LastStep.resp] = "D") => ~LastStep.ok

\* a PathFollower has asked an obstacle for a swap
C9_Witness ==
    /\ LastStep.op = "B.move"
    /\ LastStep.resp # None
    /\ symbol[LastStep.resp] = "D"

(***************************************************************************)
(* C10: at every turn boundary no active Tourist has a move counter above  *)
(* the cap, so no Tourist's counter ever exceeds the cap by more than one. *)
(***************************************************************************)
C10_Cap ==
    /\ LastStep.op = "reset" => \A c \in Range(playerCs) : move_count[c] <= MAX_C_MOVES
    /\ \A c \in Tourists : move_count[c] <= MAX_C_MOVES + 1

(***************************************************************************)
(* C11: a Tourist action in Greedy mode leaves the move counter unchanged, *)
(* an action in Idle or Random-walk mode adds exactly one to the actor's   *)
(* counter; a Tourist that has acted in Greedy mode only has counter 0 and *)
(* is finished only on its destination.                                    *)
(***************************************************************************)
C11_Step ==
    /\ Did("C.move2") => move_count' = move_count
    /\ (Did("C.move1") \/ Did("C.move3")) =>
        move_count' = [move_count EXCEPT ![Last(steps').who] = @ + 1]
    /\ move_count' # move_count => (Did("C.move1") \/ Did("C.move3"))
    /\ \A c \in Tourists :
        (c \in Range(finishedCs') \ Range(finishedCs) /\ move_count[c] = 0) =>
            cell[c] = end[c]

\* as long as the run is in its Greedy turns no Tourist has counted a move
C11_State ==
    (turn < Nturn /\ TouristMode(turn, Nturn) = "move2") =>
        \A c \in Tourists : move_count[c] = 0

C11_Counter == [](C11_State) /\ [][C11_Step]_vars

\* a Tourist has just stepped to another cell in Greedy mode
C11_Witness ==
    /\ LastStep.op = "C.move2"
    /\ cell[LastStep.who] # LastStep.from
    /\ move_count[LastStep.who] = 0

(***************************************************************************)
(* C12: in a run of Nturn turns the Tourists act in Greedy mode in turn t  *)
(* when 3t < Nturn, in Idle mode when Nturn <= 3t < 2 Nturn and in         *)
(* Random-walk mode when 2 Nturn <= 3t.                                    *)
(***************************************************************************)
C12_Thirds ==
    LET claimed == IF 3 * turn < Nturn THEN "C.move2"
                   ELSE IF 3 * turn < 2 * Nturn THEN "C.move3"
                   ELSE "C.move1"
    IN  LastStep.op \in TouristOps => LastStep.op = claimed

(***************************************************************************)
(* C13: whatever its class, an agent that accepts a swap request is in the *)
(* acted state right after accepting and makes no move of its own in the   *)
(* rest of that turn.                                                      *)
(***************************************************************************)
Accepted(s) == {s[i].resp : i \in {k \in 1..Len(s) : s[k].ok}}

C13_Step ==
    /\ (Did("B.move") /\ Last(steps').ok) => moved'[Last(steps').resp]
    /\ \A op \in {"A.move", "B.move"} \cup TouristOps :
        (Did(op) /\ Last(steps').who \in Accepted(steps)) =>
            /\ cell'[Last(steps').who] = cell[Last(steps').who]
            /\ moves'[Last(steps').who] = moves[Last(steps').who]

C13_AcceptIsAct == [][C13_Step]_vars

(***************************************************************************)
(* C14: an agent of any class whose acted flag is set never accepts a swap *)
(* request: the responder of every accepted swap was not-yet-acted when it *)
(* was asked.                                                              *)
(***************************************************************************)
C14_Step ==
    (Did("B.move") /\ Last(steps').ok) => ~moved[Last(steps').resp]

C14_FreshResponder == [][C14_Step]_vars

\* a PathFollower that has acted was offered the very cell it prefers, and
\* declined
C14_Witness ==
    /\ LastStep.op = "B.move"
    /\ LastStep.resp # None
    /\ symbol[LastStep.resp] = "B"
    /\ ~LastStep.ok
    /\ shortest_path(cell[LastStep.resp], end[LastStep.resp]) = LastStep.from

(***************************************************************************)
(* C15: the acted flag of an agent goes from acted back to not-yet-acted   *)
(* only in the reset at the end of a turn; in every other step it can only *)
(* go from not-yet-acted to acted, and at the start of every turn every    *)
(* agent of an active pool is not-yet-acted.                               *)
(***************************************************************************)
C15_Step ==
    \A a \in Agents : (moved[a] /\ ~moved'[a]) => Did("reset")

C15_TurnStart ==
    pc = "shuffleAs" => \A a \in Active : ~moved[a]

C15_Flag == [](C15_TurnStart) /\ [][C15_Step]_vars

\* a new turn starts with an active agent that acted in the turn before
C15_Witness ==
    /\ pc = "shuffleAs"
    /\ LastStep.op = "reset"
    /\ \E a \in Active : moves[a] # <<>> /\ ~moved[a]

(***************************************************************************)
(* C16: whenever a PathFollower acts while its cell is its destination,    *)
(* the cell it prefers is its own cell and the action leaves it there.     *)
(***************************************************************************)
C16_Step ==
    LET b == Last(steps').who
    IN  (Did("B.move") /\ ~moved[b] /\ cell[b] = end[b]) =>
            /\ shortest_path_between(b) = cell[b]
            /\ cell'[b] = cell[b]

C16_StaysHome == [][C16_Step]_vars

(***************************************************************************)
(* C17: when a PathFollower's swap request is declined, no cell's occupant *)
(* and no agent's cell changes, and the responder's acted flag, log and    *)
(* counter stay as they were; the initiator records a self-loop, is marked *)
(* acted and is still on its cell for the rest of the turn.                *)
(***************************************************************************)
C17_Step ==
    LET b == Last(steps').who
        p == Last(steps').resp
    IN  (Did("B.move") /\ p # None /\ ~Last(steps').ok) =>
            /\ occupant' = occupant
            /\ cell' = cell
            /\ move_count' = move_count
            /\ moves' = [moves EXCEPT ![b] = Append(@, <<cell[b], cell[b]>>)]
            /\ moved' = [moved EXCEPT ![b] = TRUE]
            /\ p # b

\* the initiators of this turn's declined requests are where they asked from
C17_Stays ==
    \A i \in 1..Len(steps) :
        (steps[i].op = "B.move" /\ steps[i].resp # None /\ ~steps[i].ok) =>
            cell[steps[i].who] = steps[i].from

C17_Declined == [](C17_Stays) /\ [][C17_Step]_vars

\* a declined initiator that had an unoccupied neighbour to go to
C17_Witness ==
    /\ LastStep.op = "B.move"
    /\ LastStep.resp # None
    /\ ~LastStep.ok
    /\ Free(LastStep.from) # {}
    /\ ~moved[LastStep.resp]

(***************************************************************************)
(* C18: after an accepted swap the initiator is on the responder's former  *)
(* cell and the responder on the initiator's, each of the two cells has    *)
(* the agent now standing on it as its occupant, and every other cell's    *)
(* occupant and every other agent's cell are unchanged.                    *)
(***************************************************************************)
C18_Step ==
    LET b == Last(steps').who
        p == Last(steps').resp
    IN  (Did("B.move") /\ Last(steps').ok) =>
            /\ cell'[b] = cell[p]
            /\ cell'[p] = cell[b]
            /\ occupant'[cell'[b]] = b
            /\ occupant'[cell'[p]] = p
            /\ \A a \in Agents \ {b, p} : cell'[a] = cell[a]
            /\ \A c \in DOMAIN occupant \ {cell[b], cell[p]} : occupant'[c] = occupant[c]

C18_Exchange == [][C18_Step]_vars

\* a Tourist has just been swapped onto the cell of the PathFollower that asked
C18_Witness ==
    /\ LastStep.op = "B.move"
    /\ LastStep.ok
    /\ symbol[LastStep.resp] = "C"
    /\ cell[LastStep.resp] = LastStep.from
    /\ occupant[LastStep.from] = LastStep.resp

(***************************************************************************)
(* C19: every Tourist action in Random-walk mode appends exactly one entry *)
(* to the Tourist's log, the move when a neighbour is unoccupied and a     *)
(* self-loop when none is, and adds exactly one to its counter, whatever   *)
(* its acted flag.                                                         *)
(***************************************************************************)
C19_Step ==
    LET c == Last(steps').who
    IN  Did("C.move1") =>
            /\ moves'[c] = Append(moves[c], <<cell[c], cell'[c]>>)
            /\ (Free(cell[c]) = {}) = (cell'[c] = cell[c])
            /\ move_count'[c] = move_count[c] + 1

C19_RandomWalk == [][C19_Step]_vars

(***************************************************************************)
(* C20: populate rejects every row whose start or destination lies outside *)
(* [0, width) x [0, height), negative coordinates included, and no agent   *)
(* is placed on, or given as destination, a cell whose coordinates differ  *)
(* from those written in its row.                                          *)
(***************************************************************************)
C20_AsWritten ==
    /\ (\E i \in 1..Len(rows) :
            rows[i].s \notin Cells(width, height) \/ rows[i].e \notin Cells(width, height))
        => pc = "IndexError"
    /\ \A a \in Agents :
        /\ start[a] = rows[a].s
        /\ symbol[a] # "D" => end[a] = rows[a].e

(***************************************************************************)
(* A PathFollower alone on a grid, for every grid up to MaxSide x MaxSide  *)
(* and every pair of distinct cells as its cell and destination: one turn  *)
(* of play_turn applies shortest_path_between to the pair.                 *)
(***************************************************************************)
MaxSide == 3

LonePathFollower ==
    {[w |-> w, h |-> h, recs |-> << Rec("B", c, d) >>] :
        <<w, h, c, d>> \in {q \in (1..MaxSide) \X (1..MaxSide)
                                   \X Cells(MaxSide, MaxSide) \X Cells(MaxSide, MaxSide) :
                               /\ q[3] \in Cells(q[1], q[2])
                               /\ q[4] \in Cells(q[1], q[2])
                               /\ q[3] # q[4]}}

PathInit == \E sc \in LonePathFollower : InitFrom(sc, 1)

PathNext ==
    \/ ShuffleAs
    \/ ShuffleBs
    \/ CleanUp
    \/ PathFollowerMove
    \/ ShuffleCs
    \/ EndTurn

PathSpec == PathInit /\ [][PathNext]_vars

(***************************************************************************)
(* C21: for every grid and every pair of distinct cells c and d, the cell  *)
(* a PathFollower on c with destination d computes when it acts            *)
(* (shortest_path_between) is the cell shortest_path gives for the pair,   *)
(* c + (sign(dx), sign(dy)), which is what it answers swap requests by.    *)
(***************************************************************************)
C21_SameTarget ==
    \A b \in Range(playerBs) :
        (cell[b] # end[b] /\ ~moved[b]) =>
            shortest_path_between(b) = shortest_path(cell[b], end[b])

\* a lone PathFollower has just stepped diagonally
C21_Witness ==
    /\ LastStep.op = "B.move"
    /\ cell[LastStep.who][1] # LastStep.from[1]
    /\ cell[LastStep.who][2] # LastStep.from[2]
    /\ cell[LastStep.who] = shortest_path(LastStep.from, end[LastStep.who])

(***************************************************************************)
(* C22: within a single turn the cell of every agent changes at most once, *)
(* by its own move or by a swap it accepted.                               *)
(***************************************************************************)
\* the agent has acted in this turn and the entry it logged is a real move
OwnMoved(a) ==
    /\ \E i \in 1..Len(steps) :
        steps[i].who = a /\ steps[i].op \in {"A.move", "B.move"} \cup TouristOps
    /\ moves[a] # <<>>
    /\ Last(moves[a])[1] # Last(moves[a])[2]

C22_Step ==
    \A a \in Agents :
        cell'[a] # cell[a] => ~(a \in Accepted(steps) \/ OwnMoved(a))

C22_OnceATurn == [][C22_Step]_vars

(***************************************************************************)
(* C23: on the 3x1 grid with a Mover on x=0 going to x=2 and a             *)
(* PathFollower on x=1 going to x=0, in every turn the Mover acts first    *)
(* and stays, the PathFollower's swap request to the Mover is declined and *)
(* neither agent changes cell: neither is ever in a finished pool.         *)
(***************************************************************************)
InCorridor == width = Corridor.w /\ height = Corridor.h /\ rows = Corridor.recs

C23_State ==
    InCorridor =>
        /\ cell = start
        /\ finishedAs = <<>>
        /\ finishedBs = <<>>
        /\ LastStep.op = "A.move" => Last(moves[LastStep.who]) = <<start[1], start[1]>>
        /\ LastStep.op = "B.move" =>
            /\ \E i \in 1..Len(steps) : steps[i].op = "A.move" /\ steps[i].who = 1
            /\ LastStep.resp = 1
            /\ ~LastStep.ok

C23_Step == InCorridor => (cell' = cell /\ occupant' = occupant)

C23_Standoff == [](C23_State) /\ [][C23_Step]_vars

\* the PathFollower has been declined once more, late in a long run
C23_Witness ==
    /\ InCorridor
    /\ turn > MaxTurns
    /\ LastStep.op = "B.move"
    /\ LastStep.resp = 1
    /\ ~LastStep.ok

(***************************************************************************)
(* C24: a Tourist acting in Greedy mode does what a Mover would do from    *)
(* the same cell, with the same destination, acted flag and occupancy of   *)
(* the board: same target cell, same log entry, same acted flag, on boards *)
(* with obstacles too.                                                     *)
(***************************************************************************)
C24_State ==
    \A c \in Agents :
        /\ TypeC_choices2(c) = TypeA_choices(c)
        /\ TypeC_target2(c) = TypeA_target(c)

C24_Step ==
    /\ Did("C.move2") => TypeA_move(Last(steps').who)
    /\ Did("A.move") => TypeC_move2(Last(steps').who)

C24_LikeMover == [](C24_State) /\ [][C24_Step]_vars

\* a Tourist next to an obstacle has just moved in Greedy mode
C24_Witness ==
    /\ LastStep.op = "C.move2"
    /\ cell[LastStep.who] # LastStep.from
    /\ \E d \in Obstacles : cell[d] \in Neighbours(LastStep.from)

(***************************************************************************)
(* A Mover alone on a grid, for every grid up to MaxSide x MaxSide, every  *)
(* start and destination, and every run length up to MaxTurns.             *)
(***************************************************************************)
LoneMover ==
    {[w |-> w, h |-> h, recs |-> << Rec("A", c, d) >>] :
        <<w, h, c, d>> \in {q \in (1..MaxSide) \X (1..MaxSide)
                                   \X Cells(MaxSide, MaxSide) \X Cells(MaxSide, MaxSide) :
                               /\ q[3] \in Cells(q[1], q[2])
                               /\ q[4] \in Cells(q[1], q[2])}}

MoverInit == \E sc \in LoneMover, n \in 1..MaxTurns : InitFrom(sc, n)

MoverNext ==
    \/ ShuffleAs
    \/ MoverMove
    \/ ShuffleBs
    \/ CleanUp
    \/ ShuffleCs
    \/ EndTurn

MoverSpec == MoverInit /\ [][MoverNext]_vars

(***************************************************************************)
(* C25: a Mover alone on the grid whose start differs from its destination *)
(* by (dx, dy) comes one closer to it, in Chebyshev distance, in every     *)
(* turn, and is in finishedAs at the end of the turn number                *)
(* max(|dx|, |dy|), not before and not after.                              *)
(***************************************************************************)
Abs(v) == IF v < 0 THEN -v ELSE v
Cheb(a, b) == IF Abs(b[1] - a[1]) > Abs(b[2] - a[2]) THEN Abs(b[1] - a[1]) ELSE Abs(b[2] - a[2])
TurnBoundary == pc \in {"shuffleAs", "done"}

C25_State ==
    \A a \in Agents :
        (start[a] # end[a] /\ TurnBoundary) =>
            /\ a \in Range(finishedAs) <=> turn >= Cheb(start[a], end[a])
            /\ turn <= Cheb(start[a], end[a]) =>
                Cheb(cell[a], end[a]) = Cheb(start[a], end[a]) - turn

C25_Step ==
    \A a \in Agents :
        (start[a] # end[a] /\ Did("A.move") /\ Last(steps').who = a) =>
            Cheb(cell'[a], end[a]) = Cheb(cell[a], end[a]) - 1

C25_Arrival == [](C25_State) /\ [][C25_Step]_vars

\* a lone Mover with two turns to go has just been finished, at the end of turn 2
C25_Witness ==
    /\ TurnBoundary
    /\ \E a \in Range(finishedAs) :
        /\ Cheb(start[a], end[a]) = turn
        /\ Abs(end[a][1] - start[a][1]) # Abs(end[a][2] - start[a][2])
        /\ Len(moves[a]) = turn
        /\ turn > 1

(***************************************************************************)
(* C26: at every turn boundary the log of every agent is a connected       *)
(* trajectory: its first entry starts on the agent's start cell, every     *)
(* entry starts where the one before it ended, and the last entry ends on  *)
(* the agent's current cell.                                               *)
(***************************************************************************)
Connected(a) ==
    moves[a] # <<>> =>
        /\ moves[a][1][1] = start[a]
        /\ \A i \in 1..(Len(moves[a]) - 1) : moves[a][i + 1][1] = moves[a][i][2]
        /\ Last(moves[a])[2] = cell[a]

C26_Trajectory == TurnBoundary => \A a \in Agents : Connected(a)

(***************************************************************************)
(* C27: the action of a Mover or of a Tourist, in any mode, changes no     *)
(* other agent's cell, acted flag, log or counter, and no occupant but     *)
(* those of the actor's origin and target cells; the action of a           *)
(* PathFollower changes, besides itself, at most the one responder that    *)
(* accepted its swap.  Every change of an agent's cell is to a cell at     *)
(* Chebyshev distance 1.                                                   *)
(***************************************************************************)
SameAgent(x) ==
    /\ cell'[x] = cell[x]
    /\ moved'[x] = moved[x]
    /\ moves'[x] = moves[x]
    /\ x \in Tourists => move_count'[x] = move_count[x]

C27_Step ==
    LET a == Last(steps').who
        p == Last(steps').resp
    IN  /\ (\E op \in {"A.move"} \cup TouristOps : Did(op)) =>
            /\ \A x \in Agents \ {a} : SameAgent(x)
            /\ \A c \in DOMAIN occupant \ {cell[a], cell'[a]} : occupant'[c] = occupant[c]
        /\ Did("B.move") =>
            /\ \A x \in Agents \ {a, p} : SameAgent(x)
            /\ (p # None /\ ~Last(steps').ok) => SameAgent(p)
            /\ \A c \in DOMAIN occupant \ {cell[a], cell'[a]} : occupant'[c] = occupant[c]
        /\ \A x \in Agents : cell'[x] # cell[x] => Cheb(cell[x], cell'[x]) = 1

C27_Frame == [][C27_Step]_vars

\* a Tourist has just walked at random on a board it shares with active agents
C27_Witness ==
    /\ LastStep.op = "C.move1"
    /\ cell[LastStep.who] # LastStep.from
    /\ Active \ {LastStep.who} # {}

(***************************************************************************)
(* C28: no cell's occupant is ever an agent of a finished pool: clean_up   *)
(* empties the cell of every agent it finishes, and a finished agent is    *)
(* never made an occupant again, never acts and never answers a swap       *)
(* request.                                                                *)
(***************************************************************************)
Finished == Range(finishedAs) \cup Range(finishedBs) \cup Range(finishedCs)

C28_State == \A c \in DOMAIN occupant : occupant[c] \notin Finished

C28_Step ==
    /\ \A a \in Finished' \ Finished : occupant'[cell[a]] = None
    /\ \A a \in Finished :
        /\ cell'[a] = cell[a] /\ moves'[a] = moves[a] /\ moved'[a] = moved[a]
        /\ a \in Tourists => move_count'[a] = move_count[a]
    /\ steps' # steps => (Last(steps').who \notin Finished
                          /\ Last(steps').resp \notin Finished)

C28_Gone == [](C28_State) /\ [][C28_Step]_vars

\* another agent stands on the cell a finished agent was taken from
C28_Witness ==
    \E a \in Finished : occupant[cell[a]] # None /\ occupant[cell[a]] # a

(***************************************************************************)
(* C29: after initialize, the neighbour list of every cell holds every     *)
(* cell of the grid at Chebyshev distance 1 from it and no cell farther    *)
(* away; a corner cell has exactly 3 such neighbours and an edge cell that *)
(* is no corner exactly 5; adjacency is symmetric and never modified.      *)
(* The counts are those of a grid with at least two rows and two columns.  *)
(***************************************************************************)
Adjacent(c) == Range(adjacent[c]) \ {c}
Corner(c) == (c[1] = 0 \/ c[1] = width - 1) /\ (c[2] = 0 \/ c[2] = height - 1)
Edge(c) == c[1] = 0 \/ c[1] = width - 1 \/ c[2] = 0 \/ c[2] = height - 1

C29_Lists ==
    /\ DOMAIN adjacent = Cells(width, height)
    /\ \A c \in Cells(width, height) :
        /\ Adjacent(c) = Neighbours(c)
        /\ \A j \in Range(adjacent[c]) : Cheb(c, j) <= 1
        /\ \A j \in Cells(width, height) : j \in Adjacent(c) <=> c \in Adjacent(j)

C29_Counts ==
    \A c \in Cells(width, height) :
        /\ Corner(c) => Cardinality(Adjacent(c)) = 3
        /\ (Edge(c) /\ ~Corner(c)) => Cardinality(Adjacent(c)) = 5

C29_Adjacency ==
    /\ [](C29_Lists /\ ((width >= 2 /\ height >= 2) => C29_Counts))
    /\ [][adjacent' = adjacent]_vars

\* the counts of C29 as they are stated, for a grid of any size
C29_AnyGrid == C29_Lists /\ C29_Counts

\* a run has ended on a grid with corner, edge and inner cells
C29_Witness ==
    /\ pc = "done"
    /\ width >= 3 /\ height >= 3
    /\ \E c \in Cells(width, height) : ~Edge(c) /\ Cardinality(Adjacent(c)) = 8
    /\ \E c \in Cells(width, height) : Corner(c) /\ Len(adjacent[c]) = 4

====
